---- MODULE Spec2Model ----
(***************************************************************************)
(* Model of the Smart Tip Calculator component (TipCalculatorApp).         *)
(*                                                                         *)
(* The component keeps six inputs in React state (bill, tipPercent,        *)
(* people, taxPercent, includeTaxInTip, rounding) plus the `copied` flag.  *)
(* Every render recomputes the derived values (numBill, tax, tipBase,      *)
(* rawTip, rawTotal, safePeople, rawPerPerson, tip, total, perPerson,      *)
(* effectiveTipPercent) from the inputs; they are state functions here.    *)
(*                                                                         *)
(* Numbers: a JavaScript number is an IEEE-754 double.  It is modelled as  *)
(* NaN, an infinity, or sign * mantissa * 2^exponent with the mantissa a   *)
(* natural number kept in limbs; +, -, *, / round to the nearest double,   *)
(* ties to even, overflow to an infinity and keep the sign of zero.        *)
(* Number(text) follows the StringToNumber grammar (white space, sign,     *)
(* point, exponent, Infinity, 0x / 0o / 0b literals) and rounds the        *)
(* decimal value correctly.  Text is a sequence of UTF-16 code units.      *)
(*                                                                         *)
(* The source holds two revisions of the component.  The model follows the *)
(* later one (clamp, the `copied` flag); the earlier one computes the same *)
(* values with Math.max(0, x) in place of clamp(x, 0, MAX_SAFE_INTEGER).   *)
(*                                                                         *)
(* lastOp records the last event handled: an edit of the form (with the    *)
(* text typed, for Split Between), Reset, or a step of copy (the click,    *)
(* write resolved or rejected, timer).                                     *)
(***************************************************************************)
EXTENDS Integers, Sequences, FiniteSets, TLC

VARIABLES bill, tipPercent, people, taxPercent, includeTaxInTip, rounding,
          copied, pendingWrites, pendingTimers, lastOp

vars == <<bill, tipPercent, people, taxPercent, includeTaxInTip, rounding,
          copied, pendingWrites, pendingTimers, lastOp>>

inputs == <<bill, tipPercent, people, taxPercent, includeTaxInTip, rounding>>

-----------------------------------------------------------------------------
(* Natural numbers of any size: a sequence of limbs in base 2^15, least    *)
(* significant limb first, no zero limb at the top; <<>> is 0.             *)

LimbBits == 15
Base == 2^LimbBits

Max(i, j) == IF i >= j THEN i ELSE j
Min(i, j) == IF i <= j THEN i ELSE j
Abs(i) == IF i < 0 THEN -i ELSE i

BLimb(a, i) == IF i >= 1 /\ i <= Len(a) THEN a[i] ELSE 0

\* The largest element of a non-empty set of integers.
MaxOf(S) == CHOOSE i \in S : \A j \in S : j <= i

\* a without zero limbs at the top.
BTrim(a) ==
    IF a = <<>> \/ a[Len(a)] # 0 THEN a
    ELSE LET nz == {i \in 1..Len(a) : a[i] # 0}
         IN  IF nz = {} THEN <<>> ELSE SubSeq(a, 1, MaxOf(nz))

\* The natural number i < 2^31 as limbs.
BFromInt(i) ==
    IF i = 0 THEN <<>>
    ELSE IF i < Base THEN <<i>>
    ELSE IF i < Base * Base THEN <<i % Base, i \div Base>>
    ELSE <<i % Base, (i \div Base) % Base, i \div (Base * Base)>>

\* -1, 0 or 1 as a < b, a = b or a > b.
BCmp(a, b) ==
    IF Len(a) # Len(b) THEN (IF Len(a) < Len(b) THEN -1 ELSE 1)
    ELSE LET df == {i \in 1..Len(a) : a[i] # b[i]}
         IN  IF df = {} THEN 0
             ELSE IF a[MaxOf(df)] < b[MaxOf(df)] THEN -1 ELSE 1

\* a + b: limb sums, then the carries (a limb passes a carry on when it
\* overflows by itself or is full and receives one).
BAdd(a, b) ==
    LET n == Max(Len(a), Len(b))
        s == [i \in 1..n |-> BLimb(a, i) + BLimb(b, i)]
        CarryInto(i) ==
            \E j \in 1..(i - 1) :
                s[j] >= Base /\ \A h \in (j + 1)..(i - 1) : s[h] >= Base - 1
    IN  BTrim([i \in 1..(n + 1) |->
                  ((IF i <= n THEN s[i] ELSE 0) + (IF CarryInto(i) THEN 1 ELSE 0)) % Base])

\* a - b for a >= b: limb differences, then the borrows.
BSub(a, b) ==
    LET d == [i \in 1..Len(a) |-> a[i] - BLimb(b, i)]
        BorrowFrom(i) ==
            \E j \in 1..(i - 1) :
                d[j] < 0 /\ \A h \in (j + 1)..(i - 1) : d[h] <= 0
    IN  BTrim([i \in 1..Len(a) |->
                  (d[i] - (IF BorrowFrom(i) THEN 1 ELSE 0) + Base) % Base])

\* a * d for a one-limb d: low halves of the limb products plus their high
\* halves one limb up.
BMulSmall(a, d) ==
    IF d = 1 THEN a
    ELSE IF d = 0 THEN <<>>
    ELSE BAdd([i \in 1..Len(a) |-> (a[i] * d) % Base],
              <<0>> \o [i \in 1..Len(a) |-> (a[i] * d) \div Base])

\* a * (limbs lo..hi of b, in place).
RECURSIVE BMulRange(_, _, _, _)
BMulRange(a, b, lo, hi) ==
    IF lo = hi THEN [i \in 1..(lo - 1) |-> 0] \o BMulSmall(a, b[lo])
    ELSE LET mid == (lo + hi) \div 2
         IN  BAdd(BMulRange(a, b, lo, mid), BMulRange(a, b, mid + 1, hi))

BMul(a, b) ==
    IF a = <<>> \/ b = <<>> THEN <<>>
    ELSE IF Len(a) >= Len(b) THEN BTrim(BMulRange(a, b, 1, Len(b)))
    ELSE BTrim(BMulRange(b, a, 1, Len(a)))

\* a * 2^k and floor(a / 2^k).
BShl(a, k) ==
    IF a = <<>> \/ k = 0 THEN a
    ELSE [i \in 1..(k \div LimbBits) |-> 0] \o BMulSmall(a, 2^(k % LimbBits))

BShr(a, k) ==
    IF k = 0 THEN a ELSE
    LET q == k \div LimbBits
        p == 2^(k % LimbBits)
    IN  IF q >= Len(a) THEN <<>>
        ELSE BTrim([i \in 1..(Len(a) - q) |->
                       (a[q + i] \div p) + (BLimb(a, q + i + 1) % p) * (Base \div p)])

\* Bit k of a (bit 0 is the lowest), and whether the k lowest bits are all 0.
BBit(a, k) == (BLimb(a, k \div LimbBits + 1) \div 2^(k % LimbBits)) % 2

BLowZero(a, k) ==
    /\ \A i \in 1..Min(k \div LimbBits, Len(a)) : a[i] = 0
    /\ BLimb(a, k \div LimbBits + 1) % 2^(k % LimbBits) = 0

BIsOdd(a) == a # <<>> /\ a[1] % 2 = 1

\* The number of bits of a limb x > 0, and of a (0 for 0).
LimbBitLen(x) ==
    IF x < 128
    THEN IF x < 8 THEN (IF x < 2 THEN 1 ELSE IF x < 4 THEN 2 ELSE 3)
         ELSE IF x < 32 THEN (IF x < 16 THEN 4 ELSE 5)
         ELSE (IF x < 64 THEN 6 ELSE 7)
    ELSE IF x < 2048 THEN (IF x < 256 THEN 8 ELSE IF x < 512 THEN 9
                           ELSE IF x < 1024 THEN 10 ELSE 11)
    ELSE IF x < 8192 THEN (IF x < 4096 THEN 12 ELSE 13)
    ELSE (IF x < 16384 THEN 14 ELSE 15)

BBitLen(a) ==
    IF a = <<>> THEN 0 ELSE (Len(a) - 1) * LimbBits + LimbBitLen(a[Len(a)])

\* The number of zero bits below the lowest set bit of a # 0.
BTrailingZeros(a) ==
    IF a[1] % 2 = 1 THEN 0
    ELSE LET i == CHOOSE j \in 1..Len(a) : a[j] # 0 /\ \A h \in 1..(j - 1) : a[h] = 0
         IN  (i - 1) * LimbBits
             + (CHOOSE n \in 0..(LimbBits - 1) : a[i] % 2^n = 0 /\ a[i] % 2^(n + 1) # 0)

\* Division by a one-limb d of r * Base^(hi-lo+1) + (limbs lo..hi of a), for
\* r < d: [q, r] with r an integer.
RECURSIVE BDivSmallRange(_, _, _, _, _)
BDivSmallRange(a, d, lo, hi, r) ==
    IF lo = hi
    THEN [q |-> <<(r * Base + a[lo]) \div d>>, r |-> (r * Base + a[lo]) % d]
    ELSE LET mid == (lo + hi) \div 2
             top == BDivSmallRange(a, d, mid + 1, hi, r)
         IN  IF top.r >= 0
             THEN LET low == BDivSmallRange(a, d, lo, mid, top.r)
                  IN  [q |-> low.q \o top.q, r |-> low.r]
             ELSE top

\* The largest digit g <= guess with g * d <= cur, and the rest cur - g * d.
RECURSIVE BDigit(_, _, _)
BDigit(cur, d, guess) ==
    LET p == BMulSmall(d, guess)
    IN  IF BCmp(p, cur) <= 0 THEN [q |-> <<guess>>, r |-> BSub(cur, p)]
        ELSE BDigit(cur, d, guess - 1)

\* Schoolbook division by d of r * Base^(hi-lo+1) + (limbs lo..hi of a),
\* for r < d: [q, r].  A d of several limbs has its top bit set, so the
\* guess from the two top limbs is at most 2 too large.
RECURSIVE BDivRange(_, _, _, _, _)
BDivRange(a, d, lo, hi, r) ==
    IF lo = hi
    THEN LET cur == BTrim(<<a[lo]>> \o r)
             n == Len(d)
         IN  BDigit(cur, d, Min(Base - 1,
                 (BLimb(cur, n + 1) * Base + BLimb(cur, n)) \div d[n]))
    ELSE LET mid == (lo + hi) \div 2
             top == BDivRange(a, d, mid + 1, hi, r)
         IN  IF Len(top.r) >= 0
             THEN LET low == BDivRange(a, d, lo, mid, top.r)
                  IN  [q |-> low.q \o top.q, r |-> low.r]
             ELSE top

\* [q |-> floor(a / b), r |-> a mod b] for b # 0.
BDivMod(a, b) ==
    IF a = <<>> THEN [q |-> <<>>, r |-> <<>>]
    ELSE IF Len(b) = 1
    THEN LET l == BDivSmallRange(a, b[1], 1, Len(a), 0)
         IN  [q |-> BTrim(l.q), r |-> BFromInt(l.r)]
    ELSE LET sh == LimbBits - LimbBitLen(b[Len(b)])
             an == BShl(a, sh)
             l == BDivRange(an, BShl(b, sh), 1, Len(an), <<>>)
         IN  [q |-> BTrim(l.q), r |-> BShr(l.r, sh)]

\* b^k for a one-limb b, by squaring.
RECURSIVE BPow(_, _)
BPow(b, k) ==
    IF k = 0 THEN <<1>>
    ELSE LET h == BPow(b, k \div 2)
         IN  IF k % 2 = 0 THEN BMul(h, h) ELSE BMulSmall(BMul(h, h), b)

-----------------------------------------------------------------------------
(* JavaScript numbers: IEEE-754 binary64.  A finite number is              *)
(* s * m * 2^e with s the sign, m an odd natural number below 2^53 (limbs)  *)
(* and e in -1074..1023; zero is m = <<>>, e = 0 and keeps its sign.       *)

Precision == 53
MinExponent == -1074
MaxBits == 1024

NaN == [k |-> "nan", s |-> 1, m |-> <<>>, e |-> 0]
Infinity(s) == [k |-> "inf", s |-> s, m |-> <<>>, e |-> 0]
SignedZero(s) == [k |-> "num", s |-> s, m |-> <<>>, e |-> 0]
Zero == SignedZero(1)

IsNaN(a) == a.k = "nan"
IsFiniteNumber(a) == a.k = "num"
IsZero(a) == a.k = "num" /\ a.m = <<>>

\* s * m * 2^e, exactly representable, in canonical form.
MkNum(s, m, e) ==
    IF m = <<>> THEN SignedZero(s)
    ELSE LET tz == BTrailingZeros(m)
         IN  IF tz = 0 THEN [k |-> "num", s |-> s, m |-> m, e |-> e]
             ELSE [k |-> "num", s |-> s, m |-> BShr(m, tz), e |-> e + tz]

\* The double nearest to s * (m + f) * 2^e, ties to even, where 0 < f < 1
\* when sticky and f = 0 otherwise (a sticky m has at least 55 bits).
RoundToDouble(s, m, e, sticky) ==
    LET sh == Max(Max(BBitLen(m) - Precision, MinExponent - e), 0)
    IN  IF sh = 0
        THEN IF BBitLen(m) + e > MaxBits THEN Infinity(s) ELSE MkNum(s, m, e)
        ELSE LET q == BShr(m, sh)
                 guard == BBit(m, sh - 1) = 1
                 rest == sticky \/ ~BLowZero(m, sh - 1)
                 q2 == IF guard /\ (rest \/ BIsOdd(q)) THEN BAdd(q, <<1>>) ELSE q
             IN  IF BBitLen(q2) + e + sh > MaxBits THEN Infinity(s)
                 ELSE MkNum(s, q2, e + sh)

\* The integer i (|i| < 2^31) as a number.
Num(i) == MkNum(IF i < 0 THEN -1 ELSE 1, BFromInt(Abs(i)), 0)

NumNeg(a) == IF IsNaN(a) THEN a ELSE [a EXCEPT !.s = -a.s]

\* -1, 0, 1 as a < b, a = b, a > b, for numbers that are not NaN.
NumCmp(a, b) ==
    IF IsZero(a) /\ IsZero(b) THEN 0
    ELSE IF a.k = "inf" \/ b.k = "inf"
    THEN LET va == IF a.k = "inf" THEN a.s ELSE 0
             vb == IF b.k = "inf" THEN b.s ELSE 0
         IN  IF va < vb THEN -1 ELSE IF va > vb THEN 1 ELSE 0
    ELSE IF IsZero(a) THEN -b.s
    ELSE IF IsZero(b) THEN a.s
    ELSE IF a.s # b.s THEN a.s
    ELSE LET ta == BBitLen(a.m) + a.e
             tb == BBitLen(b.m) + b.e
             e == Min(a.e, b.e)
         IN  IF ta # tb THEN (IF ta < tb THEN -a.s ELSE a.s)
             ELSE a.s * BCmp(BShl(a.m, a.e - e), BShl(b.m, b.e - e))

\* a < b
NumLt(a, b) == ~IsNaN(a) /\ ~IsNaN(b) /\ NumCmp(a, b) < 0

NumAdd(a, b) ==
    IF IsNaN(a) \/ IsNaN(b) THEN NaN
    ELSE IF a.k = "inf" THEN (IF b.k = "inf" /\ b.s # a.s THEN NaN ELSE a)
    ELSE IF b.k = "inf" THEN b
    ELSE IF IsZero(a) /\ IsZero(b) THEN SignedZero(IF a.s = -1 /\ b.s = -1 THEN -1 ELSE 1)
    ELSE IF IsZero(a) THEN b
    ELSE IF IsZero(b) THEN a
    ELSE LET e == Min(a.e, b.e)
             ma == BShl(a.m, a.e - e)
             mb == BShl(b.m, b.e - e)
             c == BCmp(ma, mb)
         IN  IF a.s = b.s THEN RoundToDouble(a.s, BAdd(ma, mb), e, FALSE)
             ELSE IF c = 0 THEN Zero
             ELSE IF c > 0 THEN RoundToDouble(a.s, BSub(ma, mb), e, FALSE)
             ELSE RoundToDouble(b.s, BSub(mb, ma), e, FALSE)

NumSub(a, b) == NumAdd(a, NumNeg(b))

NumMul(a, b) ==
    IF IsNaN(a) \/ IsNaN(b) THEN NaN
    ELSE IF a.k = "inf" \/ b.k = "inf"
    THEN (IF IsZero(a) \/ IsZero(b) THEN NaN ELSE Infinity(a.s * b.s))
    ELSE IF IsZero(a) \/ IsZero(b) THEN SignedZero(a.s * b.s)
    ELSE RoundToDouble(a.s * b.s, BMul(a.m, b.m), a.e + b.e, FALSE)

NumDiv(a, b) ==
    IF IsNaN(a) \/ IsNaN(b) THEN NaN
    ELSE IF a.k = "inf" THEN (IF b.k = "inf" THEN NaN ELSE Infinity(a.s * b.s))
    ELSE IF b.k = "inf" THEN SignedZero(a.s * b.s)
    ELSE IF IsZero(b) THEN (IF IsZero(a) THEN NaN ELSE Infinity(a.s * b.s))
    ELSE IF IsZero(a) THEN SignedZero(a.s * b.s)
    ELSE LET k == Max(0, Precision + 2 + BBitLen(b.m) - BBitLen(a.m))
             d == BDivMod(BShl(a.m, k), b.m)
         IN  RoundToDouble(a.s * b.s, d.q, a.e - b.e - k, d.r # <<>>)

\* Math.max, Math.min: NaN if either is NaN, and +0 is larger than -0.
MathMax(a, b) ==
    IF IsNaN(a) \/ IsNaN(b) THEN NaN
    ELSE IF IsZero(a) /\ IsZero(b) THEN SignedZero(IF a.s = 1 \/ b.s = 1 THEN 1 ELSE -1)
    ELSE IF NumCmp(a, b) >= 0 THEN a ELSE b

MathMin(a, b) ==
    IF IsNaN(a) \/ IsNaN(b) THEN NaN
    ELSE IF IsZero(a) /\ IsZero(b) THEN SignedZero(IF a.s = -1 \/ b.s = -1 THEN -1 ELSE 1)
    ELSE IF NumCmp(a, b) <= 0 THEN a ELSE b

\* Number.MAX_SAFE_INTEGER = 2^53 - 1
MAX_SAFE_INTEGER == MkNum(1, BSub(BShl(<<1>>, Precision), <<1>>), 0)

\* Math.floor: a number with e < 0 has a fraction (m is odd).
MathFloor(a) ==
    IF ~IsFiniteNumber(a) \/ a.e >= 0 THEN a
    ELSE LET q == BShr(a.m, -a.e)
         IN  IF a.s = 1 THEN MkNum(1, q, 0) ELSE MkNum(-1, BAdd(q, <<1>>), 0)

\* Math.round: floor(x + 0.5) in exact arithmetic, so exact halves go
\* towards +Infinity; a result of zero keeps the sign of x.
MathRound(a) ==
    IF ~IsFiniteNumber(a) \/ a.e >= 0 THEN a
    ELSE LET h == -a.e
             half == BShl(<<1>>, h - 1)
         IN  IF a.s = 1 THEN MkNum(1, BShr(BAdd(a.m, half), h), 0)
             ELSE IF BCmp(a.m, half) <= 0 THEN SignedZero(-1)
             ELSE MkNum(-1, BShr(BAdd(BSub(a.m, half), BSub(BShl(<<1>>, h), <<1>>)), h), 0)

-----------------------------------------------------------------------------
(* Text and its conversion to numbers.  Text is a sequence of UTF-16 code  *)
(* units, as a string of the program is.                                   *)

\* The printable ASCII characters in the order of their code units: 32 to
\* 95, and 97 to 126 (a string cannot hold the grave accent, 96).
Printable ==
    << " ", "!", "\"", "#", "$", "%", "&", "'", "(", ")", "*", "+", ",", "-", ".", "/",
       "0", "1", "2", "3", "4", "5", "6", "7", "8", "9", ":", ";", "<", "=", ">", "?",
       "@", "A", "B", "C", "D", "E", "F", "G", "H", "I", "J", "K", "L", "M", "N", "O",
       "P", "Q", "R", "S", "T", "U", "V", "W", "X", "Y", "Z", "[", "\\", "]", "^", "_" >>
PrintableAfterGrave ==
    << "a", "b", "c", "d", "e", "f", "g", "h", "i", "j", "k", "l", "m", "n", "o",
       "p", "q", "r", "s", "t", "u", "v", "w", "x", "y", "z", "{", "|", "}", "~" >>

\* The code unit of a printable ASCII character, and the text that a
\* sequence of such characters spells.
CodeUnit(c) ==
    IF \E i \in 1..Len(Printable) : Printable[i] = c
    THEN 31 + (CHOOSE i \in 1..Len(Printable) : Printable[i] = c)
    ELSE 96 + (CHOOSE i \in 1..Len(PrintableAfterGrave) : PrintableAfterGrave[i] = c)
Text(cs) == [i \in 1..Len(cs) |-> CodeUnit(cs[i])]

\* The code units of - + . 0 a A, of the letters that mark an exponent and
\* a radix (e E, x X, o O, b B), of the digits 0 to 9 and of the letters
\* a to f and A to F.
Minus == 45
Plus == 43
Point == 46
ZeroDigit == 48
LowerA == 97
UpperA == 65
ExponentIndicators == {101, 69}
HexIndicators == {120, 88}
OctalIndicators == {111, 79}
BinaryIndicators == {98, 66}
Digits == 48..57
HexLetters == (97..102) \cup (65..70)

\* The value of a digit of radix 16 or less.
DigitValue(c) ==
    IF c \in Digits THEN c - ZeroDigit
    ELSE IF c >= LowerA THEN c - LowerA + 10
    ELSE c - UpperA + 10
RadixDigits(radix) == {c \in Digits \cup HexLetters : DigitValue(c) < radix}

AllIn(s, S) == \A i \in 1..Len(s) : s[i] \in S

\* The value of a text of at most 9 decimal digits.
RECURSIVE DigitsValue(_)
DigitsValue(s) ==
    IF s = <<>> THEN 0
    ELSE DigitsValue(SubSeq(s, 1, Len(s) - 1)) * 10 + DigitValue(s[Len(s)])

\* The value of the digits lo..hi of s in the given radix.
RECURSIVE BFromDigits(_, _, _, _)
BFromDigits(s, radix, lo, hi) ==
    IF lo > hi THEN <<>>
    ELSE IF radix = 10 /\ hi - lo < 9 THEN BFromInt(DigitsValue(SubSeq(s, lo, hi)))
    ELSE IF lo = hi THEN BFromInt(DigitValue(s[lo]))
    ELSE LET mid == (lo + hi) \div 2
         IN  BAdd(BMul(BFromDigits(s, radix, lo, mid), BPow(radix, hi - mid)),
                  BFromDigits(s, radix, mid + 1, hi))

\* The code units Number() trims from both ends: the WhiteSpace of
\* ECMAScript (U+0009, U+000B, U+000C, U+FEFF and the space separators
\* U+0020, U+00A0, U+1680, U+2000 to U+200A, U+202F, U+205F, U+3000) and
\* its LineTerminator (U+000A, U+000D, U+2028, U+2029).
WhiteSpace ==
    {9, 11, 12, 65279, 32, 160, 5760, 8239, 8287, 12288, 10, 13, 8232, 8233}
        \cup (8192..8202)

\* The first position of s that holds a character of S, and the first and
\* the last that hold a character outside S.
FirstIn(s, S) ==
    CHOOSE i \in 1..Len(s) : s[i] \in S /\ \A j \in 1..(i - 1) : s[j] \notin S
FirstOutside(s, S) ==
    CHOOSE i \in 1..Len(s) : s[i] \notin S /\ \A j \in 1..(i - 1) : s[j] \in S
LastOutside(s, S) ==
    CHOOSE i \in 1..Len(s) : s[i] \notin S /\ \A j \in (i + 1)..Len(s) : s[j] \in S

StrTrim(s) ==
    IF AllIn(s, WhiteSpace) THEN <<>>
    ELSE SubSeq(s, FirstOutside(s, WhiteSpace), LastOutside(s, WhiteSpace))

InfinityText == Text(<<"I", "n", "f", "i", "n", "i", "t", "y">>)

\* The number of decimal digits of n >= 0.
RECURSIVE DecimalLength(_)
DecimalLength(n) == IF n < 10 THEN 1 ELSE 1 + DecimalLength(n \div 10)

\* The smaller of most and the value of the decimal digits ds.
RECURSIVE DigitsValueUpTo(_, _)
DigitsValueUpTo(ds, most) ==
    IF ds = <<>> THEN 0
    ELSE LET v == DigitsValueUpTo(SubSeq(ds, 1, Len(ds) - 1), most)
             d == DigitValue(ds[Len(ds)])
         IN  IF v > (most - d) \div 10 THEN most ELSE v * 10 + d

\* The smaller of most and the value of the digits ds of an exponent:
\* digits that outnumber those of most, leading zeros apart, denote more.
ExponentValue(ds, most) ==
    LET sig == IF AllIn(ds, {ZeroDigit}) THEN <<>>
               ELSE SubSeq(ds, FirstOutside(ds, {ZeroDigit}), Len(ds))
    IN  IF Len(sig) > DecimalLength(most) THEN most ELSE DigitsValueUpTo(sig, most)

\* The number nearest to sgn * (digits digs) * 10^x.  With nd digits from
\* the first to the last that is not 0, and x counted from the last, the
\* value is at least 10^(nd + x - 1) and less than 10^(nd + x).
DecimalToNumber(sgn, digs, x0) ==
    IF AllIn(digs, {ZeroDigit}) THEN SignedZero(sgn)
    ELSE LET last == LastOutside(digs, {ZeroDigit})
             sig == SubSeq(digs, FirstOutside(digs, {ZeroDigit}), last)
             nd == Len(sig)
             x == x0 + (Len(digs) - last)
         IN  IF nd + x > 310 THEN Infinity(sgn)
             ELSE IF nd + x < -330 THEN SignedZero(sgn)
             ELSE LET d == BFromDigits(sig, 10, 1, nd)
                  IN  IF x >= 0
                      THEN RoundToDouble(sgn, BMul(d, BPow(10, x)), 0, FALSE)
                      ELSE LET p == BPow(10, -x)
                               k == Max(0, Precision + 2 + BBitLen(p) - BBitLen(d))
                               qr == BDivMod(BShl(d, k), p)
                           IN  RoundToDouble(sgn, qr.q, -k, qr.r # <<>>)

\* StrUnsignedDecimalLiteral with the sign sgn in front: Infinity, or
\* digits with at most one point and an optional exponent part.  The
\* exponent is taken in full wherever the result depends on it: above
\* Len(fp) + 310 every number with a digit that is not 0 is infinite, and
\* below -(Len(ip) + Len(fp) + 330) every number is zero.
StrUnsignedDecimal(sgn, u) ==
    IF u = InfinityText THEN Infinity(sgn)
    ELSE LET hasExp == \E i \in 1..Len(u) : u[i] \in ExponentIndicators
             p == IF hasExp THEN FirstIn(u, ExponentIndicators) ELSE Len(u) + 1
             mant == SubSeq(u, 1, p - 1)
             expo == SubSeq(u, p + 1, Len(u))
             dp == IF \E i \in 1..Len(mant) : mant[i] = Point
                   THEN FirstIn(mant, {Point}) ELSE Len(mant) + 1
             ip == SubSeq(mant, 1, dp - 1)
             fp == SubSeq(mant, dp + 1, Len(mant))
             signed == expo # <<>> /\ Head(expo) \in {Plus, Minus}
             ed == IF signed THEN Tail(expo) ELSE expo
             neg == Head(expo) = Minus
             most == IF neg THEN Len(ip) + Len(fp) + 331 ELSE Len(fp) + 311
             ev == IF ~hasExp THEN 0
                   ELSE (IF neg THEN -1 ELSE 1) * ExponentValue(ed, most)
         IN  IF /\ AllIn(ip, Digits)
                /\ AllIn(fp, Digits)
                /\ ip \o fp # <<>>
                /\ hasExp => (ed # <<>> /\ AllIn(ed, Digits))
             THEN DecimalToNumber(sgn, ip \o fp, ev - Len(fp))
             ELSE NaN

\* NonDecimalIntegerLiteral: 0b, 0o or 0x and digits of that radix.
NonDecimal(s) ==
    LET radix == IF s[2] \in HexIndicators THEN 16
                 ELSE IF s[2] \in OctalIndicators THEN 8 ELSE 2
        ds == SubSeq(s, 3, Len(s))
    IN  IF ds # <<>> /\ AllIn(ds, RadixDigits(radix))
        THEN RoundToDouble(1, BFromDigits(ds, radix, 1, Len(ds)), 0, FALSE)
        ELSE NaN

\* Number(text): StringToNumber.
JSNumber(text) ==
    LET s == StrTrim(text)
    IN  IF s = <<>> THEN Zero
        ELSE IF Head(s) = Minus THEN StrUnsignedDecimal(-1, Tail(s))
        ELSE IF Head(s) = Plus THEN StrUnsignedDecimal(1, Tail(s))
        ELSE IF /\ Len(s) >= 2
                /\ s[1] = ZeroDigit
                /\ s[2] \in HexIndicators \cup OctalIndicators \cup BinaryIndicators
        THEN NonDecimal(s)
        ELSE StrUnsignedDecimal(1, s)

\* Mutant: the character class of the cleaning lacks the minus sign.
KeptByCleaning_NoMinus(c) == c \in Digits \cup {Point}

\* The characters v.replace(/[^0-9.\-]/g, "") keeps.
KeptByCleaning(c) == c \in Digits \cup {Point, Minus}

parseToNumber(v) ==
    IF v = <<>> THEN Zero
    ELSE LET cleaned == SelectSeq(v, KeptByCleaning)
             n == JSNumber(cleaned)
         IN  IF IsFiniteNumber(n) THEN n ELSE Zero

clamp(n, min, max) == MathMin(MathMax(n, min), max)

safeNumber(v, fallback) ==
    LET n == JSNumber(v) IN IF IsFiniteNumber(n) THEN n ELSE fallback

-----------------------------------------------------------------------------
(* Program constants and the input events the model draws from.            *)

presets == <<12, 15, 18, 20, 22, 25>>
roundingModes == <<"none", "tip", "total", "perPerson">>
RoundingIds == {roundingModes[i] : i \in 1..Len(roundingModes)}

\* Texts typed into the "Bill Amount" field; the last one is 10^17.
BillTexts ==
    { <<>>,
      Text(<<"1", "0", "0">>),
      Text(<<"5", "0">>),
      Text(<<"1", ".", "1">>),
      Text(<<"-", "2", ".", "5">>),
      Text(<<"1", "0", "0", "0", "0", "0", "0", "0", "0",
             "0", "0", "0", "0", "0", "0", "0", "0", "0">>) }

\* Texts typed into the "Sales Tax %" field; the second one is 10 between
\* an ideographic space U+3000 and a line separator U+2028.
TaxTexts ==
    { <<>>,
      <<12288>> \o Text(<<"1", "0">>) \o <<8232>>,
      Text(<<"1", "e", "1">>),
      Text(<<"-", "5">>),
      Text(<<"a", "b", "c">>) }

\* Texts typed into the "Split Between" field.
PeopleTexts ==
    { <<>>, Text(<<"3">>), Text(<<"4">>) }

\* Values the range input (min 0, max 40, step 0.5) reports, as text.
SliderTexts ==
    { Text(<<"1", "4", ".", "5">>) }

-----------------------------------------------------------------------------
(* Values derived from the inputs on every render.                         *)

numBill == parseToNumber(bill)

tax == clamp(NumMul(numBill, NumDiv(taxPercent, Num(100))), Zero, MAX_SAFE_INTEGER)

\* Mutant: the tip base ignores includeTaxInTip.
tipBase_IgnoresTax == numBill

tipBase == IF includeTaxInTip THEN NumAdd(numBill, tax) ELSE numBill

rawTip == clamp(NumMul(tipBase, NumDiv(tipPercent, Num(100))), Zero, MAX_SAFE_INTEGER)

rawTotal == NumAdd(NumAdd(numBill, tax), rawTip)

\* A falsy number: 0, -0 or NaN.
IsFalsy(a) == IsNaN(a) \/ IsZero(a)

\* Mutant: the count is clamped but not floored.
safePeople_NoFloor ==
    MathMax(Num(1), IF IsFalsy(people) THEN Num(1) ELSE people)

\* Math.max(1, Math.floor(people || 1))
safePeople ==
    MathMax(Num(1), MathFloor(IF IsFalsy(people) THEN Num(1) ELSE people))

rawPerPerson == NumDiv(rawTotal, safePeople)

\* Mutant: the tip is rounded but total keeps the raw tip.
reconcileTip_StaleTotal ==
    LET t == MathRound(rawTip)
    IN  [tip |-> t, total |-> rawTotal, perPerson |-> NumDiv(rawTotal, safePeople)]

\* case "tip": round the tip, then rebuild total and the split from it.
reconcileTip ==
    LET t == MathRound(rawTip)
        tot == NumAdd(NumAdd(numBill, tax), t)
    IN  [tip |-> t, total |-> tot, perPerson |-> NumDiv(tot, safePeople)]

\* Mutant: the total is rounded to cents instead of to a whole unit.
reconcileTotal_RoundsToCents ==
    LET tot == NumDiv(MathRound(NumMul(rawTotal, Num(100))), Num(100))
    IN  [tip |-> MathMax(Zero, NumSub(tot, NumAdd(numBill, tax))),
         total |-> tot,
         perPerson |-> NumDiv(tot, safePeople)]

\* case "total": round the total, then rebuild tip and the split from it.
reconcileTotal ==
    LET tot == MathRound(rawTotal)
    IN  [tip |-> MathMax(Zero, NumSub(tot, NumAdd(numBill, tax))),
         total |-> tot,
         perPerson |-> NumDiv(tot, safePeople)]

\* Mutant: the tip is rebuilt from the raw total, not from the rounded split.
reconcilePerPerson_TipFromRawTotal ==
    LET pp == MathRound(rawPerPerson)
        tot == NumMul(pp, safePeople)
    IN  [tip |-> MathMax(Zero, NumSub(rawTotal, NumAdd(numBill, tax))),
         total |-> tot,
         perPerson |-> pp]

\* Mutant: the split is rounded but total is left at its raw value.
reconcilePerPerson_StaleTotal ==
    LET pp == MathRound(rawPerPerson)
    IN  [tip |-> MathMax(Zero, NumSub(rawTotal, NumAdd(numBill, tax))),
         total |-> rawTotal,
         perPerson |-> pp]

\* case "perPerson": round the split, then rebuild total and tip from it.
reconcilePerPerson ==
    LET pp == MathRound(rawPerPerson)
        tot == NumMul(pp, safePeople)
    IN  [tip |-> MathMax(Zero, NumSub(tot, NumAdd(numBill, tax))),
         total |-> tot,
         perPerson |-> pp]

\* The useMemo block: rounding reconciliation, one branch per mode.
reconciled ==
    CASE rounding = "tip" -> reconcileTip
      [] rounding = "total" -> reconcileTotal
      [] rounding = "perPerson" -> reconcilePerPerson
      [] OTHER -> [tip |-> rawTip, total |-> rawTotal, perPerson |-> rawPerPerson]

tip == reconciled.tip
total == reconciled.total
perPerson == reconciled.perPerson

\* Mutant: the percentage is taken from the tip before reconciliation.
effectiveTipPercent_FromRawTip ==
    IF NumLt(Zero, tipBase) THEN NumMul(NumDiv(rawTip, tipBase), Num(100)) ELSE Zero

effectiveTipPercent ==
    IF NumLt(Zero, tipBase) THEN NumMul(NumDiv(tip, tipBase), Num(100)) ELSE Zero

-----------------------------------------------------------------------------
(* The component's state and its event handlers.                           *)

Event(op, arg) == [op |-> op, arg |-> arg]

Init ==
    /\ bill = <<>>
    /\ tipPercent = Num(18)
    /\ people = Num(1)
    /\ taxPercent = Zero
    /\ includeTaxInTip = FALSE
    /\ rounding = "none"
    /\ copied = FALSE
    /\ pendingWrites = 0
    /\ pendingTimers = 0
    /\ lastOp = Event("init", <<>>)

\* onChange of "Bill Amount": setBill(e.target.value).
SetBill(v) ==
    /\ bill' = v
    /\ lastOp' = Event("edit", <<>>)
    /\ UNCHANGED <<tipPercent, people, taxPercent, includeTaxInTip, rounding,
                   copied, pendingWrites, pendingTimers>>

\* onChange of "Sales Tax %": setTaxPercent(safeNumber(e.target.value, 0)).
SetTaxPercent(v) ==
    /\ taxPercent' = safeNumber(v, Zero)
    /\ lastOp' = Event("edit", <<>>)
    /\ UNCHANGED <<bill, tipPercent, people, includeTaxInTip, rounding,
                   copied, pendingWrites, pendingTimers>>

\* onChange of the checkbox: setIncludeTaxInTip(e.target.checked).
SetIncludeTaxInTip(checked) ==
    /\ includeTaxInTip' = checked
    /\ lastOp' = Event("edit", <<>>)
    /\ UNCHANGED <<bill, tipPercent, people, taxPercent, rounding,
                   copied, pendingWrites, pendingTimers>>

\* onChange of the range input: setTipPercent(Number(e.target.value)).
SetTipPercentSlider(v) ==
    /\ tipPercent' = JSNumber(v)
    /\ lastOp' = Event("edit", <<>>)
    /\ UNCHANGED <<bill, people, taxPercent, includeTaxInTip, rounding,
                   copied, pendingWrites, pendingTimers>>

\* onClick of a preset button: setTipPercent(p).
SetTipPercentPreset(p) ==
    /\ tipPercent' = Num(p)
    /\ lastOp' = Event("edit", <<>>)
    /\ UNCHANGED <<bill, people, taxPercent, includeTaxInTip, rounding,
                   copied, pendingWrites, pendingTimers>>

\* onChange of "Split Between": setPeople(Math.max(1, safeNumber(value, 1))).
SetPeople(v) ==
    /\ people' = MathMax(Num(1), safeNumber(v, Num(1)))
    /\ lastOp' = Event("setPeople", v)
    /\ UNCHANGED <<bill, tipPercent, taxPercent, includeTaxInTip, rounding,
                   copied, pendingWrites, pendingTimers>>

\* onClick of a rounding-mode button: setRounding(m.id).
SetRounding(m) ==
    /\ rounding' = m
    /\ lastOp' = Event("edit", <<>>)
    /\ UNCHANGED <<bill, tipPercent, people, taxPercent, includeTaxInTip,
                   copied, pendingWrites, pendingTimers>>

\* Mutant: Reset forgets the rounding mode.
Reset_KeepsRounding ==
    /\ bill' = <<>>
    /\ tipPercent' = Num(18)
    /\ people' = Num(1)
    /\ taxPercent' = Zero
    /\ includeTaxInTip' = FALSE
    /\ copied' = FALSE
    /\ lastOp' = Event("reset", <<>>)
    /\ UNCHANGED <<rounding, pendingWrites, pendingTimers>>

\* onClick of "Reset".
Reset ==
    /\ bill' = <<>>
    /\ tipPercent' = Num(18)
    /\ people' = Num(1)
    /\ taxPercent' = Zero
    /\ includeTaxInTip' = FALSE
    /\ rounding' = "none"
    /\ copied' = FALSE
    /\ lastOp' = Event("reset", <<>>)
    /\ UNCHANGED <<pendingWrites, pendingTimers>>

\* The input handlers and Reset: every way the six inputs change.
FormNext ==
    \/ \E v \in BillTexts : SetBill(v)
    \/ \E v \in TaxTexts : SetTaxPercent(v)
    \/ \E checked \in BOOLEAN : SetIncludeTaxInTip(checked)
    \/ \E v \in SliderTexts : SetTipPercentSlider(v)
    \/ \E i \in 1..Len(presets) : SetTipPercentPreset(presets[i])
    \/ \E v \in PeopleTexts : SetPeople(v)
    \/ \E m \in RoundingIds : SetRounding(m)
    \/ Reset

Spec == Init /\ [][FormNext]_vars

-----------------------------------------------------------------------------
(* "Copy Summary": an asynchronous clipboard write, then the `copied`      *)
(* flag for 1500 ms.  The summary text itself is not modelled.             *)

MaxPendingWrites == 1
MaxPendingTimers == 1

\* onClick of "Copy Summary": copy() runs up to the await.
Copy ==
    /\ pendingWrites < MaxPendingWrites
    /\ pendingWrites' = pendingWrites + 1
    /\ lastOp' = Event("copy", <<>>)
    /\ UNCHANGED <<bill, tipPercent, people, taxPercent, includeTaxInTip,
                   rounding, copied, pendingTimers>>

\* navigator.clipboard.writeText resolved: setCopied(true), setTimeout(...).
WriteResolved ==
    /\ pendingWrites > 0
    /\ pendingTimers < MaxPendingTimers
    /\ pendingWrites' = pendingWrites - 1
    /\ copied' = TRUE
    /\ pendingTimers' = pendingTimers + 1
    /\ lastOp' = Event("writeResolved", <<>>)
    /\ UNCHANGED <<bill, tipPercent, people, taxPercent, includeTaxInTip,
                   rounding>>

\* Mutant: the catch block also clears the `copied` flag.
WriteRejected_ClearsCopied ==
    /\ pendingWrites > 0
    /\ pendingWrites' = pendingWrites - 1
    /\ copied' = FALSE
    /\ lastOp' = Event("writeRejected", <<>>)
    /\ UNCHANGED <<bill, tipPercent, people, taxPercent, includeTaxInTip,
                   rounding, pendingTimers>>

\* navigator.clipboard.writeText rejected: the catch block only warns.
WriteRejected ==
    /\ pendingWrites > 0
    /\ pendingWrites' = pendingWrites - 1
    /\ lastOp' = Event("writeRejected", <<>>)
    /\ UNCHANGED <<bill, tipPercent, people, taxPercent, includeTaxInTip,
                   rounding, copied, pendingTimers>>

\* The 1500 ms timer fires: setCopied(false).
CopiedTimeout ==
    /\ pendingTimers > 0
    /\ pendingTimers' = pendingTimers - 1
    /\ copied' = FALSE
    /\ lastOp' = Event("copiedTimeout", <<>>)
    /\ UNCHANGED <<bill, tipPercent, people, taxPercent, includeTaxInTip,
                   rounding, pendingWrites>>

Next ==
    \/ FormNext
    \/ Copy
    \/ WriteResolved
    \/ WriteRejected
    \/ CopiedTimeout

SpecApp == Init /\ [][Next]_vars

-----------------------------------------------------------------------------
(* Single-field specifications: one text field edited with every text of   *)
(* up to MaxTextLen characters over an alphabet.  The alphabet of "Split   *)
(* Between" has a white space, the ideographic space U+3000, which         *)
(* Number() trims at the ends of a text and rejects inside a number.       *)

MaxTextLen == 3
TextAlphabet == {CodeUnit("0"), CodeUnit("5"), Point, Minus, CodeUnit("e")}
Texts == UNION {[1..k -> TextAlphabet] : k \in 0..MaxTextLen}

BillFieldNext == \E v \in Texts : SetBill(v)
SpecBillField == Init /\ [][BillFieldNext]_vars

PeopleAlphabet == TextAlphabet \cup {12288}
PeopleFieldTexts == UNION {[1..k -> PeopleAlphabet] : k \in 0..MaxTextLen}

PeopleFieldNext == \E v \in PeopleFieldTexts : SetPeople(v)
SpecPeopleField == Init /\ [][PeopleFieldNext]_vars

-----------------------------------------------------------------------------
(* Claims.  Amounts are doubles, so an identity between amounts that is    *)
(* stated in real arithmetic is required to hold within Tolerance times    *)
(* the largest amount on display.                                          *)

\* a <= b, |a|, and whether a is a whole number.
NumLeq(a, b) == ~IsNaN(a) /\ ~IsNaN(b) /\ NumCmp(a, b) <= 0
NumAbs(a) == IF IsNaN(a) THEN a ELSE [a EXCEPT !.s = 1]
IsInteger(a) == IsFiniteNumber(a) /\ a.e >= 0

\* 2^-48, sixteen times Number.EPSILON.
Tolerance == MkNum(1, <<1>>, -48)

\* |a - b| <= Tolerance * scale
Near(a, b, scale) == NumLeq(NumAbs(NumSub(a, b)), NumMul(Tolerance, scale))

\* The largest magnitude among the bill, the tax and the outputs r.
LargestAmount(r) ==
    MathMax(MathMax(NumAbs(numBill), NumAbs(tax)),
            MathMax(NumAbs(r.tip), NumAbs(r.total)))

\* C1: in every reachable state, whatever the rounding mode, the displayed
\* outputs satisfy total = bill + tax + tip (within floating-point
\* tolerance), bill being the parsed bill.
C1_TotalIsBillPlusTaxPlusTip ==
    LET r == reconciled
    IN  Near(r.total, NumAdd(NumAdd(numBill, tax), r.tip), LargestAmount(r))

\* C2: in every reachable state perPerson * peopleCount = total within
\* floating-point tolerance; in modes none, tip and total perPerson is
\* total / peopleCount, and in mode perPerson total is the rounded
\* per-person share times peopleCount.
C2_PerPersonTimesPeopleIsTotal ==
    LET r == reconciled
        n == safePeople
    IN  /\ Near(NumMul(r.perPerson, n), r.total, LargestAmount(r))
        /\ rounding # "perPerson" => r.perPerson = NumDiv(r.total, n)
        /\ rounding = "perPerson" =>
              LET pp == MathRound(rawPerPerson)
              IN  r.perPerson = pp /\ r.total = NumMul(pp, n)

\* C2 witness: three people, per-person rounding, and the rounding moved
\* both the share and the total.
C2_Witness ==
    /\ rounding = "perPerson"
    /\ safePeople = Num(3)
    /\ perPerson # rawPerPerson
    /\ total # rawTotal

\* C3: each of tax, tip, total and perPerson is >= 0 for every bill text
\* (negative ones included), tax percent, tip percent, people count and mode.
C3_OutputsNonNegative ==
    LET r == reconciled
    IN  /\ NumLeq(Zero, tax)
        /\ NumLeq(Zero, r.tip)
        /\ NumLeq(Zero, r.total)
        /\ NumLeq(Zero, r.perPerson)

\* The sanitisation the claim C4 describes: every character is removed
\* except digits, decimal points and a minus that leads what is kept.
NumericChars == Digits \cup {Point, Minus}
IsNumericChar(c) == c \in NumericChars
IsNotMinus(c) == c # Minus
KeepLeadingMinusOnly(s) ==
    IF s = <<>> THEN <<>> ELSE <<Head(s)>> \o SelectSeq(Tail(s), IsNotMinus)

\* A left-to-right scan of an unsigned decimal: the digits read so far as
\* n / d, whether a point and a digit were seen, and whether the text is
\* still well formed.
RECURSIVE ScanDecimal(_, _)
ScanDecimal(s, acc) ==
    IF s = <<>> \/ ~acc.ok THEN acc
    ELSE LET c == Head(s)
         IN  ScanDecimal(Tail(s),
                 IF c \in Digits
                 THEN [acc EXCEPT !.n = acc.n * 10 + DigitValue(c),
                                  !.d = IF acc.dot THEN acc.d * 10 ELSE acc.d,
                                  !.dig = TRUE]
                 ELSE IF c = Point /\ ~acc.dot
                 THEN [acc EXCEPT !.dot = TRUE]
                 ELSE [acc EXCEPT !.ok = FALSE])

\* The decimal value of a sanitised text (the double nearest to n / d, with
\* the sign the text carries), or 0 when it is no decimal number.
DecimalOrZero(c) ==
    LET neg == c # <<>> /\ Head(c) = Minus
        r == ScanDecimal(IF neg THEN Tail(c) ELSE c,
                         [n |-> 0, d |-> 1, dot |-> FALSE, dig |-> FALSE, ok |-> TRUE])
        v == NumDiv(Num(r.n), Num(r.d))
    IN  IF r.ok /\ r.dig THEN (IF neg THEN NumNeg(v) ELSE v) ELSE Zero

\* C4 as stated: the bill is the decimal value of the text with everything
\* removed except digits, a single leading minus and decimal points, or 0
\* when that is no finite number; it is never NaN or an infinity.
C4_BillIsValueOfLeadingMinusSanitisedText ==
    LET b == numBill
    IN  /\ IsFiniteNumber(b)
        /\ b = DecimalOrZero(KeepLeadingMinusOnly(SelectSeq(bill, IsNumericChar)))

\* C4 amended: the bill is the decimal value of the text with everything
\* removed except digits, decimal points and minus signs (all of them, kept
\* where they stand), and 0 when what is left is not a well-formed decimal
\* number (an optional leading minus, digits, at most one point); it is
\* never NaN or an infinity.
C4_BillIsValueOfCleanedTextOrZero ==
    LET b == numBill
    IN  /\ IsFiniteNumber(b)
        /\ b = DecimalOrZero(SelectSeq(bill, IsNumericChar))

\* C4 witness: a minus inside the number survives the cleaning, so the text
\* is malformed and the bill is 0.
C4_Witness ==
    /\ bill = Text(<<"5", "-", "5">>)
    /\ lastOp.op = "edit"
    /\ numBill = Zero

\* The white space and line terminators of ECMAScript, by their ranges.
IsBlank(c) ==
    \/ c \in 9..13
    \/ c \in {32, 160, 5760}
    \/ c \in 8192..8202
    \/ c \in {8232, 8233, 8239, 8287, 12288, 65279}

\* The text s without the blanks in front of it, and s backwards.
RECURSIVE DropBlanks(_)
DropBlanks(s) == IF s # <<>> /\ IsBlank(Head(s)) THEN DropBlanks(Tail(s)) ELSE s
Backwards(s) == [i \in 1..Len(s) |-> s[Len(s) + 1 - i]]

\* A left-to-right reading of a decimal literal: at is the part of the
\* literal the reading is in ("start" before a sign, "int" and "frac" in
\* the digits before and after the point, "mark" after the e, "expsign"
\* after the sign of the exponent, "exp" in its digits, "bad" once the text
\* is no literal); n is the number the digits spell without the point, fl
\* the count of digits after the point, ex the exponent.
RECURSIVE ReadDecimal(_, _)
ReadDecimal(s, acc) ==
    IF s = <<>> \/ acc.at = "bad" THEN acc
    ELSE LET c == Head(s)
             bad == [acc EXCEPT !.at = "bad"]
         IN  ReadDecimal(Tail(s),
                 IF acc.at \in {"start", "int", "frac"} /\ c \in Digits
                 THEN [acc EXCEPT !.n = acc.n * 10 + (c - ZeroDigit),
                                  !.fl = IF acc.at = "frac" THEN acc.fl + 1 ELSE acc.fl,
                                  !.dig = TRUE,
                                  !.at = IF acc.at = "frac" THEN "frac" ELSE "int"]
                 ELSE IF acc.at = "start" /\ c \in {Plus, Minus}
                 THEN [acc EXCEPT !.neg = (c = Minus), !.at = "int"]
                 ELSE IF acc.at \in {"start", "int"} /\ c = Point
                 THEN [acc EXCEPT !.at = "frac"]
                 ELSE IF acc.at \in {"int", "frac"} /\ acc.dig /\ c \in ExponentIndicators
                 THEN [acc EXCEPT !.at = "mark"]
                 ELSE IF acc.at = "mark" /\ c \in {Plus, Minus}
                 THEN [acc EXCEPT !.eneg = (c = Minus), !.at = "expsign"]
                 ELSE IF acc.at \in {"mark", "expsign", "exp"} /\ c \in Digits
                 THEN [acc EXCEPT !.ex = acc.ex * 10 + (c - ZeroDigit), !.at = "exp"]
                 ELSE bad)

RECURSIVE TenTo(_)
TenTo(k) == IF k = 0 THEN 1 ELSE 10 * TenTo(k - 1)

\* The people count C5 expects for a text typed into "Split Between", read
\* off the text itself: with the blanks at both ends left aside, a decimal
\* literal that denotes n * 10^k > 0 gives max(1, floor(n * 10^k)) when
\* that is a finite number, and every other text gives 1.  (For texts of
\* at most eight characters, which are too short to spell Infinity or a
\* literal of another radix that is more than 1.)
ExpectedPeopleCount(v) ==
    LET body == Backwards(DropBlanks(Backwards(DropBlanks(v))))
        r == ReadDecimal(body, [at |-> "start", neg |-> FALSE, n |-> 0, fl |-> 0,
                                dig |-> FALSE, eneg |-> FALSE, ex |-> 0])
        k == (IF r.eneg THEN -r.ex ELSE r.ex) - r.fl
        whole == RoundToDouble(1, BMul(BFromInt(r.n), BPow(10, k)), 0, FALSE)
    IN  IF ~(r.dig /\ r.at \in {"int", "frac", "exp"}) \/ r.neg \/ r.n = 0
        THEN Num(1)
        ELSE IF k >= 0 THEN (IF IsFiniteNumber(whole) THEN whole ELSE Num(1))
        ELSE IF -k > 8 THEN Num(1)
        ELSE Num(Max(1, r.n \div TenTo(-k)))

\* C5: after any sequence of edits of "Split Between" the people count used
\* in the computation is an integer >= 1: max(1, floor(input)) for numeric
\* input, 1 for unparsable or non-positive input.
C5_PeopleCountIsFlooredAndAtLeastOne ==
    LET n == safePeople
    IN  /\ IsInteger(n)
        /\ NumLeq(Num(1), n)
        /\ lastOp.op = "setPeople" => n = ExpectedPeopleCount(lastOp.arg)

\* C5 witness: a fractional count was typed and is floored.
C5_Witness ==
    /\ lastOp = Event("setPeople", Text(<<"5", ".", "5">>))
    /\ people = MkNum(1, <<11>>, -1)
    /\ safePeople = Num(5)

\* C6: with roundingMode = total the total is a whole number, tip is
\* total - bill - tax clamped below at 0 (within floating-point tolerance),
\* and perPerson is total / peopleCount.
C6_RoundTotal ==
    rounding = "total" =>
        LET r == reconciled
        IN  /\ IsInteger(r.total)
            /\ Near(r.tip, MathMax(Zero, NumSub(NumSub(r.total, numBill), tax)),
                    LargestAmount(r))
            /\ r.perPerson = NumDiv(r.total, safePeople)

\* C6 witness: the raw total was no whole number and the rounded one leaves
\* a positive tip, split between several people.
C6_Witness ==
    /\ rounding = "total"
    /\ ~IsInteger(rawTotal)
    /\ NumLt(Zero, tip)
    /\ NumLt(Num(1), safePeople)

\* C7: with roundingMode = perPerson the share is a whole number, total is
\* perPerson * peopleCount exactly and tip is max(0, total - bill - tax)
\* (within floating-point tolerance); bill 50, tax 0%, tip 18%, 3 people
\* give perPerson 20, total 60, tip 10.
C7_RoundPerPerson ==
    rounding = "perPerson" =>
        LET r == reconciled
        IN  /\ IsInteger(r.perPerson)
            /\ r.total = NumMul(r.perPerson, safePeople)
            /\ Near(r.tip, MathMax(Zero, NumSub(NumSub(r.total, numBill), tax)),
                    LargestAmount(r))
            /\ ( /\ numBill = Num(50)
                 /\ taxPercent = Zero
                 /\ tipPercent = Num(18)
                 /\ safePeople = Num(3) )
               => /\ r.perPerson = Num(20)
                  /\ r.total = Num(60)
                  /\ r.tip = Num(10)

\* C7 witness: the scenario of the claim; its raw share 59 / 3 is no whole
\* number.
C7_Witness ==
    /\ rounding = "perPerson"
    /\ bill = Text(<<"5", "0">>)
    /\ taxPercent = Zero
    /\ tipPercent = Num(18)
    /\ people = Num(3)
    /\ rawPerPerson = NumDiv(Num(59), Num(3))
    /\ perPerson = Num(20)

\* C8: with roundingMode = tip the tip is a whole number, total is
\* bill + tax + tip with that rounded tip, and perPerson is total / peopleCount.
C8_RoundTip ==
    rounding = "tip" =>
        LET r == reconciled
        IN  /\ IsInteger(r.tip)
            /\ r.total = NumAdd(NumAdd(numBill, tax), r.tip)
            /\ r.perPerson = NumDiv(r.total, safePeople)

\* C8 witness: bill 100 at 14.5%: the raw tip is the double just below
\* 14.5, the tip is 14 and the total 114.
C8_Witness ==
    /\ rounding = "tip"
    /\ bill = Text(<<"1", "0", "0">>)
    /\ tipPercent = JSNumber(Text(<<"1", "4", ".", "5">>))
    /\ taxPercent = Zero
    /\ NumLt(rawTip, JSNumber(Text(<<"1", "4", ".", "5">>)))
    /\ tip = Num(14)
    /\ total = Num(114)

\* The reference formulas of C9 in double arithmetic, with tax and tip
\* capped at cap.
Reference(cap) ==
    LET refTax == MathMin(cap,
                      MathMax(Zero, NumDiv(NumMul(numBill, taxPercent), Num(100))))
        refBase == IF includeTaxInTip THEN NumAdd(numBill, refTax) ELSE numBill
        refTip == MathMin(cap,
                      MathMax(Zero, NumDiv(NumMul(refBase, tipPercent), Num(100))))
        refTotal == NumAdd(NumAdd(numBill, refTax), refTip)
    IN  [tax |-> refTax, tipBase |-> refBase, tip |-> refTip, total |-> refTotal,
         perPerson |-> NumDiv(refTotal, safePeople)]

\* The outputs agree with the reference values ref within floating-point
\* tolerance, and the two scenarios of C9 give exactly the amounts stated.
AgreesWithReference(ref) ==
    LET r == reconciled
        t == tax
        scale == LargestAmount(r)
    IN  /\ Near(t, ref.tax, scale)
        /\ Near(tipBase, ref.tipBase, scale)
        /\ Near(r.tip, ref.tip, scale)
        /\ Near(r.total, ref.total, scale)
        /\ Near(r.perPerson, ref.perPerson, scale)
        /\ ( /\ numBill = Num(100)
             /\ taxPercent = Num(10)
             /\ tipPercent = Num(20)
             /\ safePeople = Num(4) )
           => /\ t = Num(10)
              /\ ~includeTaxInTip =>
                    /\ r.tip = Num(20)
                    /\ r.total = Num(130)
                    /\ r.perPerson = MkNum(1, <<65>>, -1)
              /\ includeTaxInTip =>
                    /\ r.tip = Num(22)
                    /\ r.total = Num(132)
                    /\ r.perPerson = Num(33)

\* The inputs C9 speaks of.
NoRoundingNonNegative ==
    /\ rounding = "none"
    /\ NumLeq(Zero, numBill)
    /\ NumLeq(Zero, taxPercent)
    /\ NumLeq(Zero, tipPercent)

\* C9 as stated: with roundingMode = none and non-negative bill, taxPercent
\* and tipPercent the outputs are the reference formulas
\* tax = max(0, bill * taxPercent / 100), tipBase = bill + tax or bill,
\* tip = max(0, tipBase * tipPercent / 100), total = bill + tax + tip,
\* perPerson = total / peopleCount; bill 100, tax 10%, tip 20%, 4 people
\* give tax 10, tip 20, total 130, perPerson 32.5 without tax in the tip
\* base and tip 22, total 132, perPerson 33 with it.
C9_NoRoundingReference ==
    NoRoundingNonNegative => AgreesWithReference(Reference(Infinity(1)))

\* C9 amended: as C9, with tax and tip each capped at
\* Number.MAX_SAFE_INTEGER: tax = min(MAX_SAFE_INTEGER, max(0, ...)) and
\* tip = min(MAX_SAFE_INTEGER, max(0, ...)).
C9_NoRoundingReferenceCapped ==
    NoRoundingNonNegative => AgreesWithReference(Reference(MAX_SAFE_INTEGER))

\* C9 witness: a bill of 10^17 at 10% tax, whose tax is capped.
C9_Witness ==
    /\ rounding = "none"
    /\ Len(bill) = 18
    /\ taxPercent = Num(10)
    /\ includeTaxInTip
    /\ tax = MAX_SAFE_INTEGER
    /\ NumLt(tax, NumDiv(NumMul(numBill, taxPercent), Num(100)))

\* The documented defaults of the six inputs.
DocumentedDefaults ==
    << <<>>, Num(18), Num(1), Zero, FALSE, "none" >>

\* C10: Reset, from any reachable state, leaves the six inputs at their
\* documented defaults, which are also the inputs on first load.
C10_ResetRestoresDefaults ==
    lastOp.op \in {"init", "reset"} => inputs = DocumentedDefaults

\* C10 witness: Reset has just run.
C10_Witness ==
    /\ lastOp.op = "reset"
    /\ inputs = DocumentedDefaults

\* C11: effectiveTipPercent is (tip / tipBase) * 100 with the tip after
\* rounding reconciliation whenever tipBase > 0, and 0 whenever tipBase is
\* not greater than 0; with a bill of 0 the outputs tax, tip, total,
\* perPerson and effectiveTipPercent are all 0 in every rounding mode.
C11_EffectiveTipPercent ==
    LET r == reconciled
        base == tipBase
        eff == effectiveTipPercent
    IN  /\ NumLt(Zero, base) => eff = NumMul(NumDiv(r.tip, base), Num(100))
        /\ ~NumLt(Zero, base) => eff = Zero
        /\ IsZero(numBill) =>
              /\ IsZero(tax)
              /\ IsZero(r.tip)
              /\ IsZero(r.total)
              /\ IsZero(r.perPerson)
              /\ IsZero(eff)

\* C11 witness: bill 100 at 14.5% with the tip rounded to 14: the effective
\* percentage is (14 / 100) * 100, the double just above 14.
C11_Witness ==
    /\ rounding = "tip"
    /\ bill = Text(<<"1", "0", "0">>)
    /\ tipPercent = JSNumber(Text(<<"1", "4", ".", "5">>))
    /\ ~includeTaxInTip
    /\ tip = Num(14)
    /\ NumLt(Num(14), effectiveTipPercent)
    /\ Near(effectiveTipPercent, Num(14), Num(14))

\* Rounding to the nearest whole unit with exact halves away from zero.
RoundHalfAwayFromZero(a) ==
    IF ~IsFiniteNumber(a) \/ a.s = 1 THEN MathRound(a)
    ELSE NumNeg(MathRound(NumNeg(a)))

\* C12: in the modes tip, total and perPerson the rounded quantity (rawTip,
\* rawTotal, rawPerPerson) is rounded to the nearest whole unit with exact
\* halves away from zero, for every value it can take (2.5 -> 3, -2.5 -> -3).
C12_RoundsHalfAwayFromZero ==
    /\ rounding = "tip" => tip = RoundHalfAwayFromZero(rawTip)
    /\ rounding = "total" => total = RoundHalfAwayFromZero(rawTotal)
    /\ rounding = "perPerson" => perPerson = RoundHalfAwayFromZero(rawPerPerson)

\* The steps of a Copy Summary action: the click and its continuations.
CopyOps == {"copy", "writeResolved", "writeRejected", "copiedTimeout"}

\* C13: no step of a Copy Summary action, whether the clipboard write
\* succeeds or fails and however it interleaves with input changes and
\* Reset, changes any of the six inputs; the computed outputs (tax, tip,
\* total, perPerson, effectiveTipPercent) are functions of the six inputs
\* alone and so stay as they were; the click and a failed write leave the
\* whole component state (inputs, `copied`, pending timers) as it was.
C13_CopyLeavesInputsAndOutputs ==
    [][ lastOp'.op \in CopyOps =>
          /\ inputs' = inputs
          /\ lastOp'.op \in {"copy", "writeRejected"} =>
                /\ copied' = copied
                /\ pendingTimers' = pendingTimers ]_vars

\* C13 witness: a clipboard write has just failed while the form holds
\* edited inputs and the flag of an earlier, successful copy is still shown.
C13_Witness ==
    /\ lastOp.op = "writeRejected"
    /\ bill = Text(<<"1", "0", "0">>)
    /\ rounding = "total"
    /\ copied
    /\ pendingTimers = 1
    /\ pendingWrites = 0

====
